---- MODULE Spec2Model ----
(***************************************************************************)
(* Model of spotify-to-apple.py: the export lister, the browser setup, the *)
(* per-track adder and the driver loop of main().                          *)
(*                                                                         *)
(* Python strings are TLA+ strings; characters are one-character strings   *)
(* obtained with SubSeq.  Track records are TLA+ records whose DOMAIN is   *)
(* the set of keys present in the JSON object.                             *)
(***************************************************************************)
EXTENDS Integers, Sequences, FiniteSets, TLC

VARIABLES
    pc,               \* position of main()
    outcome,          \* how main() ended ("" while it runs)
    dir_exists,       \* os.path.exists(export_dir)
    listing,          \* os.listdir(export_dir), in the order the OS gives
    exported_files,   \* main: exported_files
    typed,            \* the last line read by input(), as typed
    prompts,          \* the input() prompts answered so far, in order
    choice,           \* main: choice (stripped)
    selected_file,    \* main: selected_file
    songs,            \* main: songs
    found_songs,      \* main: found_songs
    start_from,       \* main: start_from (stripped)
    start_idx,        \* main: start_idx
    songs_to_process, \* main: songs_to_process
    confirm,          \* main: confirm (stripped, lower-cased)
    attempts,         \* webdriver.Chrome() calls made by setup_browser
    browsers,         \* browser processes started: "open" or "closed"
    driver,           \* main: driver, an index into browsers (0: none)
    navigated,        \* URLs passed to driver.get, in order
    pos,              \* tracks of songs_to_process consumed by the loop
    progress,         \* the index printed by add_song_to_library per call
    results,          \* the value add_song_to_library returned per call
    last_page,        \* what the browser showed for the last call
    successful,       \* main: successful
    failed,           \* main: failed
    failed_songs,     \* main: failed_songs
    failed_file       \* lines of failed_songs_<timestamp>.txt (<<>>: no file)

vars == <<pc, outcome, dir_exists, listing, exported_files, typed, prompts,
          choice, selected_file, songs, found_songs, start_from, start_idx,
          songs_to_process, confirm, attempts, browsers, driver, navigated,
          pos, progress, results, last_page, successful, failed,
          failed_songs, failed_file>>

(***************************************************************************)
(* Bounds                                                                  *)
(***************************************************************************)
MaxFiles == 3      \* entries of the export directory (lister specification)
MaxTracks == 2     \* tracks of a loaded export

(***************************************************************************)
(* Python string operations                                                *)
(***************************************************************************)
Char(s, i) == SubSeq(s, i, i)

\* ord(c) for the characters the inputs use
Ord(c) ==
    CASE c = " " -> 32
      [] c = "+" -> 43
      [] c = "-" -> 45
      [] c = "." -> 46
      [] c = "0" -> 48
      [] c = "1" -> 49
      [] c = "2" -> 50
      [] c = "3" -> 51
      [] c = "4" -> 52
      [] c = "5" -> 53
      [] c = "6" -> 54
      [] c = "7" -> 55
      [] c = "8" -> 56
      [] c = "9" -> 57
      [] c = "E" -> 69
      [] c = "J" -> 74
      [] c = "N" -> 78
      [] c = "O" -> 79
      [] c = "S" -> 83
      [] c = "Y" -> 89
      [] c = "a" -> 97
      [] c = "b" -> 98
      [] c = "e" -> 101
      [] c = "j" -> 106
      [] c = "k" -> 107
      [] c = "n" -> 110
      [] c = "o" -> 111
      [] c = "s" -> 115
      [] c = "t" -> 116
      [] c = "x" -> 120
      [] c = "y" -> 121

\* str.__lt__: lexicographic on code points, a proper prefix is smaller
RECURSIVE StrLess(_, _)
StrLess(a, b) ==
    IF Len(b) = 0 THEN FALSE
    ELSE IF Len(a) = 0 THEN TRUE
    ELSE IF Ord(Char(a, 1)) # Ord(Char(b, 1))
         THEN Ord(Char(a, 1)) < Ord(Char(b, 1))
    ELSE StrLess(SubSeq(a, 2, Len(a)), SubSeq(b, 2, Len(b)))

\* str.endswith
endswith(s, suffix) ==
    /\ Len(s) >= Len(suffix)
    /\ SubSeq(s, Len(s) - Len(suffix) + 1, Len(s)) = suffix

\* str.strip
RECURSIVE lstrip(_)
lstrip(s) ==
    IF Len(s) > 0 /\ Char(s, 1) = " " THEN lstrip(SubSeq(s, 2, Len(s))) ELSE s

RECURSIVE rstrip(_)
rstrip(s) ==
    IF Len(s) > 0 /\ Char(s, Len(s)) = " "
    THEN rstrip(SubSeq(s, 1, Len(s) - 1)) ELSE s

strip(s) == rstrip(lstrip(s))

\* str.lower
LowerChar(c) ==
    CASE c = "E" -> "e"
      [] c = "J" -> "j"
      [] c = "N" -> "n"
      [] c = "O" -> "o"
      [] c = "S" -> "s"
      [] c = "Y" -> "y"
      [] OTHER -> c

RECURSIVE lower(_)
lower(s) ==
    IF Len(s) = 0 THEN s
    ELSE LowerChar(Char(s, 1)) \o lower(SubSeq(s, 2, Len(s)))

\* int(s): surrounding blanks, an optional sign, then one or more digits
IsDigit(c) == Ord(c) >= 48 /\ Ord(c) <= 57

AllDigits(s) == /\ Len(s) > 0
                /\ \A i \in 1..Len(s) : IsDigit(Char(s, i))

Unsigned(s) ==
    IF Len(s) > 0 /\ Char(s, 1) \in {"+", "-"} THEN SubSeq(s, 2, Len(s)) ELSE s

\* TRUE iff int(s) does not raise ValueError
int_ok(s) == AllDigits(Unsigned(strip(s)))

RECURSIVE DigitsValue(_)
DigitsValue(s) ==
    IF Len(s) = 0 THEN 0
    ELSE 10 * DigitsValue(SubSeq(s, 1, Len(s) - 1)) + (Ord(Char(s, Len(s))) - 48)

int(s) ==
    LET t == strip(s)
    IN  IF Len(t) > 0 /\ Char(t, 1) = "-" THEN 0 - DigitsValue(Unsigned(t))
        ELSE DigitsValue(Unsigned(t))

\* seq[i] with Python's indexing: 0-based, a negative i counts from the end
PyIndex(seq, i) == IF i < 0 THEN seq[Len(seq) + i + 1] ELSE seq[i + 1]

(***************************************************************************)
(* get_exported_files                                                      *)
(***************************************************************************)
\* [f for f in names if f.endswith('.json')]
RECURSIVE json_only(_)
json_only(names) ==
    IF names = <<>> THEN <<>>
    ELSE IF endswith(Head(names), ".json")
         THEN <<Head(names)>> \o json_only(Tail(names))
         ELSE json_only(Tail(names))

\* the place of x in a list kept in descending order
RECURSIVE InsertDesc(_, _)
InsertDesc(x, s) ==
    IF s = <<>> THEN <<x>>
    ELSE IF StrLess(Head(s), x) THEN <<x>> \o s
    ELSE <<Head(s)>> \o InsertDesc(x, Tail(s))

\* a faulty sorted_reverse, one that forgets reverse=True
RECURSIVE InsertAsc(_, _)
InsertAsc(x, s) ==
    IF s = <<>> THEN <<x>>
    ELSE IF StrLess(x, Head(s)) THEN <<x>> \o s
    ELSE <<Head(s)>> \o InsertAsc(x, Tail(s))

RECURSIVE sorted_ascending(_)
sorted_ascending(names) ==
    IF names = <<>> THEN <<>>
    ELSE InsertAsc(names[Len(names)], sorted_ascending(SubSeq(names, 1, Len(names) - 1)))

\* sorted(names, reverse=True)
RECURSIVE sorted_reverse(_)
sorted_reverse(names) ==
    IF names = <<>> THEN <<>>
    ELSE InsertDesc(names[Len(names)], sorted_reverse(SubSeq(names, 1, Len(names) - 1)))

get_exported_files(exists, names) ==
    IF ~exists THEN <<>> ELSE sorted_reverse(json_only(names))

(***************************************************************************)
(* Inputs: the export directory, the console, the export file, the browser *)
(***************************************************************************)
\* names an export directory may hold
FileNames == {"a.json", "b.json", "ab.json", "a.txt", "b.json.bak", "json", "a.JSON"}

\* the orders in which os.listdir may give at most MaxFiles of them
Listings ==
    {l \in UNION {[1..n -> FileNames] : n \in 0..MaxFiles} :
        \A i, j \in 1..Len(l) : i # j => l[i] # l[j]}

\* the export directories of the runs of main()
RunListings == {<<>>, <<"a.txt">>, <<"a.txt", "b.json">>}

DigitStr(n) == Char("0123456789", n + 1)

\* lines typed at "Select file (1-N): "
ChoiceInputs == {"1", " 1 ", "2", "3", "0", "x", ""}

\* lines typed at "Start from song number (1-N) [1]: "
StartInputs ==
    {"", "x", " 2"} \cup {DigitStr(n) : n \in 0..(MaxTracks + 1)}

\* lines typed at "Ready to start? (yes/no): "
ConfirmInputs == {"yes", "YES", " Yes ", "no", "y", ""}

\* lines typed at the "Press Enter ..." prompts
EnterInputs == {""}

\* track records of an export file: the keys present are the DOMAIN
TrackRecs ==
    { [spotify_name |-> "s1", spotify_artist |-> "X", found |-> TRUE, apple_url |-> "u1"],
      [spotify_name |-> "s2", spotify_artist |-> "Y", found |-> TRUE, apple_url |-> "u2"],
      [spotify_name |-> "s3", spotify_artist |-> "X", found |-> FALSE, apple_url |-> "u3"],
      [spotify_name |-> "s4", spotify_artist |-> "X", apple_url |-> "u4"],
      [spotify_name |-> "s5", spotify_artist |-> "Y", found |-> TRUE],
      [spotify_name |-> "s6", spotify_artist |-> "Y", found |-> TRUE, apple_url |-> ""],
      [spotify_artist |-> "X", found |-> TRUE, apple_url |-> "u7"] }

\* the "tracks" array of an export file
TrackLists == UNION {[1..n -> TrackRecs] : n \in 0..MaxTracks}

\* what one webdriver.Chrome() call followed by execute_script can do:
\* start the browser and return, fail to start it, or start it and then raise
LaunchOutcomes == {"ok", "launch_fail", "script_fail"}

\* what the browser shows for one track
Pages ==
    {p \in [nav_ok : BOOLEAN, css_visible : BOOLEAN, xpath_visible : BOOLEAN,
            in_library : BOOLEAN, scroll_ok : BOOLEAN, click_ok : BOOLEAN,
            js_click_ok : BOOLEAN] :
        \* what the code never looks at is FALSE: the controls after a failed
        \* driver.get, the XPath lookups after a CSS hit, the clicks without
        \* a control, the script click after a click that worked
        /\ ~p.nav_ok => ~(p.css_visible \/ p.xpath_visible)
        /\ p.css_visible => ~p.xpath_visible
        /\ ~(p.css_visible \/ p.xpath_visible) => ~p.scroll_ok
        /\ ~p.scroll_ok => ~p.click_ok
        /\ (~p.scroll_ok \/ p.click_ok) => ~p.js_click_ok}

NoPage == [nav_ok |-> FALSE, css_visible |-> FALSE, xpath_visible |-> FALSE,
           in_library |-> FALSE, scroll_ok |-> FALSE, click_ok |-> FALSE,
           js_click_ok |-> FALSE]

APPLE_MUSIC_URL == "https://music.apple.com"

(***************************************************************************)
(* main: the steps between the prompts                                     *)
(***************************************************************************)
\* a faulty file_idx_ok, one that forgets the lower limit
file_idx_ok_no_lower(file_idx, n) == ~(file_idx >= n)

\* not (file_idx < 0 or file_idx >= len(exported_files))
file_idx_ok(file_idx, n) == ~(file_idx < 0 \/ file_idx >= n)

\* s.get(key) is truthy
truthy(s, key) ==
    /\ key \in DOMAIN s
    /\ IF key = "found" THEN s[key] = TRUE ELSE s[key] # ""

\* a faulty wanted, one that looks at the URL alone
wanted_url_only(s) == truthy(s, "apple_url")

\* s.get('found') and s.get('apple_url')
wanted(s) == truthy(s, "found") /\ truthy(s, "apple_url")

\* [s for s in songs if s.get('found') and s.get('apple_url')]
RECURSIVE found_filter(_)
found_filter(tracks) ==
    IF tracks = <<>> THEN <<>>
    ELSE IF wanted(Head(tracks))
         THEN <<Head(tracks)>> \o found_filter(Tail(tracks))
         ELSE found_filter(Tail(tracks))

\* a faulty start_index, one that forgets the upper limit
start_index_no_upper(line, count) ==
    IF line = "" \/ ~int_ok(line) THEN 0
    ELSE IF int(line) - 1 < 0 THEN 0 ELSE int(line) - 1

\* start_idx from the stripped line and len(found_songs)
start_index(line, count) ==
    IF line = "" THEN 0
    ELSE IF ~int_ok(line) THEN 0
    ELSE LET idx0 == int(line) - 1
             idx1 == IF idx0 < 0 THEN 0 ELSE idx0
         IN  IF idx1 >= count THEN 0 ELSE idx1

\* seq[i:]
slice_from(seq, i) == SubSeq(seq, i + 1, Len(seq))

\* a faulty confirmed, one that stops only at "no"
confirmed_unless_no(answer) == answer # "no"

\* not (confirm != "yes")
confirmed(answer) == answer = "yes"

(***************************************************************************)
(* setup_browser                                                           *)
(***************************************************************************)
MaxLaunches == 3   \* launch outcomes the environment has ready

\* a faulty retry_without_profile, one that retries after every failure
retry_always(use_profile) == TRUE

\* the except branch: retry only if this attempt used the profile
retry_without_profile(use_profile) == use_profile

\* the calls setup_browser makes, given the outcomes of successive launches
\* (outs holds MaxLaunches of them, more than the code ever uses), and
\* whether it raises
RECURSIVE setup_browser(_, _)
setup_browser(use_profile, outs) ==
    LET call == [use_profile |-> use_profile, result |-> Head(outs)]
    IN  IF Head(outs) = "ok" THEN [calls |-> <<call>>, raised |-> FALSE]
        ELSE IF retry_without_profile(use_profile) /\ Tail(outs) # <<>>
             THEN LET r == setup_browser(FALSE, Tail(outs))
                  IN  [calls |-> <<call>> \o r.calls, raised |-> r.raised]
        ELSE [calls |-> <<call>>, raised |-> TRUE]

\* the browser processes the calls started, all still open
RECURSIVE started(_)
started(calls) ==
    IF calls = <<>> THEN <<>>
    ELSE IF Head(calls).result = "launch_fail" THEN started(Tail(calls))
    ELSE <<"open">> \o started(Tail(calls))

\* driver.quit()
quit(bs, d) == [bs EXCEPT ![d] = "closed"]

(***************************************************************************)
(* add_song_to_library                                                     *)
(***************************************************************************)
\* the two selector loops: add_button is not None
add_button(page) == page.css_visible \/ page.xpath_visible

\* a faulty add_song_to_library, one whose handler reports success
add_song_swallow(page) ==
    IF ~page.nav_ok THEN TRUE
    ELSE IF add_button(page) THEN TRUE
    ELSE page.in_library

\* the value returned for a page
add_song_to_library(page) ==
    IF ~page.nav_ok THEN FALSE                    \* driver.get raised
    ELSE IF add_button(page)
         THEN IF ~page.scroll_ok THEN FALSE       \* execute_script raised
              ELSE IF page.click_ok THEN TRUE
              ELSE page.js_click_ok               \* raised: handler, False
    ELSE page.in_library

\* f"{song['spotify_name']} - {song['spotify_artist']}"
label(song) == song.spotify_name \o " - " \o song.spotify_artist

\* a faulty tally, one that counts a failure without recording it
tally_no_label(result, s, f, fs, song) ==
    IF result THEN [successful |-> s + 1, failed |-> f, failed_songs |-> fs]
    ELSE [successful |-> s, failed |-> f + 1, failed_songs |-> fs]

\* the counters after one result
tally(result, s, f, fs, song) ==
    IF result THEN [successful |-> s + 1, failed |-> f, failed_songs |-> fs]
    ELSE [successful |-> s, failed |-> f + 1,
          failed_songs |-> Append(fs, label(song))]

\* the lines written to failed_songs_<timestamp>.txt
failed_file_lines(fs) ==
    <<"Songs that failed to add:", "========================================">> \o fs

(***************************************************************************)
(* main                                                                    *)
(***************************************************************************)
\* a return, or an exception leaving main()
Exit(how) == pc' = "exit" /\ outcome' = how

Ask(prompt, line) == typed' = line /\ prompts' = Append(prompts, prompt)

\* exported_files = get_exported_files(); return if there are none
Main_ListFiles ==
    /\ pc = "start"
    /\ exported_files' = get_exported_files(dir_exists, listing)
    /\ IF exported_files' = <<>>
       THEN Exit("no_exports")
       ELSE pc' = "select" /\ outcome' = outcome
    /\ UNCHANGED <<dir_exists, listing, typed, prompts, choice, selected_file,
                   songs, found_songs, start_from, start_idx, songs_to_process,
                   confirm, attempts, browsers, driver, navigated, pos,
                   progress, results, last_page, successful, failed,
                   failed_songs, failed_file>>

\* choice = input(...).strip(); the try block that sets selected_file
Main_SelectFile ==
    /\ pc = "select"
    /\ \E line \in ChoiceInputs :
        /\ Ask("file", line)
        /\ choice' = strip(line)
        /\ IF int_ok(choice') /\ file_idx_ok(int(choice') - 1, Len(exported_files))
           THEN /\ selected_file' = PyIndex(exported_files, int(choice') - 1)
                /\ pc' = "load" /\ outcome' = outcome
           ELSE /\ selected_file' = selected_file
                /\ Exit("invalid_choice")
    /\ UNCHANGED <<dir_exists, listing, exported_files, songs, found_songs,
                   start_from, start_idx, songs_to_process, confirm, attempts,
                   browsers, driver, navigated, pos, progress, results,
                   last_page, successful, failed, failed_songs, failed_file>>

\* load_songs_from_json raises (I/O, parse): the exception leaves main()
Main_LoadFails ==
    /\ pc = "load"
    /\ Exit("error")
    /\ UNCHANGED <<dir_exists, listing, exported_files, typed, prompts, choice,
                   selected_file, songs, found_songs, start_from, start_idx,
                   songs_to_process, confirm, attempts, browsers, driver,
                   navigated, pos, progress, results, last_page, successful,
                   failed, failed_songs, failed_file>>

\* songs, _ = load_songs_from_json(filepath); found_songs = [...]; return if empty
Main_LoadSongs ==
    /\ pc = "load"
    /\ \E tracks \in TrackLists :
        /\ songs' = tracks
        /\ found_songs' = found_filter(tracks)
    /\ IF found_songs' = <<>>
       THEN Exit("no_songs")
       ELSE pc' = "ask_start" /\ outcome' = outcome
    /\ UNCHANGED <<dir_exists, listing, exported_files, typed, prompts, choice,
                   selected_file, start_from, start_idx, songs_to_process,
                   confirm, attempts, browsers, driver, navigated, pos,
                   progress, results, last_page, successful, failed,
                   failed_songs, failed_file>>

\* start_from = input(...).strip(); start_idx; songs_to_process
Main_AskStart ==
    /\ pc = "ask_start"
    /\ \E line \in StartInputs :
        /\ Ask("start", line)
        /\ start_from' = strip(line)
    /\ start_idx' = start_index(start_from', Len(found_songs))
    /\ songs_to_process' = slice_from(found_songs, start_idx')
    /\ pc' = "confirm"
    /\ UNCHANGED <<outcome, dir_exists, listing, exported_files, choice,
                   selected_file, songs, found_songs, confirm, attempts,
                   browsers, driver, navigated, pos, progress, results,
                   last_page, successful, failed, failed_songs, failed_file>>

\* confirm = input(...).strip().lower(); return unless it is "yes"
Main_Confirm ==
    /\ pc = "confirm"
    /\ \E line \in ConfirmInputs :
        /\ Ask("confirm", line)
        /\ confirm' = lower(strip(line))
    /\ IF confirmed(confirm')
       THEN pc' = "setup" /\ outcome' = outcome
       ELSE Exit("cancelled")
    /\ UNCHANGED <<dir_exists, listing, exported_files, choice, selected_file,
                   songs, found_songs, start_from, start_idx, songs_to_process,
                   attempts, browsers, driver, navigated, pos, progress,
                   results, last_page, successful, failed, failed_songs,
                   failed_file>>

\* try: driver = setup_browser()  except Exception: ...; return
Main_SetupBrowser ==
    /\ pc = "setup"
    /\ \E outs \in [1..MaxLaunches -> LaunchOutcomes] :
        LET r == setup_browser(TRUE, outs)
        IN  /\ attempts' = r.calls
            /\ browsers' = started(r.calls)
            /\ IF r.raised
               THEN driver' = driver /\ Exit("setup_failed")
               ELSE /\ driver' = Len(browsers')
                    /\ pc' = "landing" /\ outcome' = outcome
    /\ UNCHANGED <<dir_exists, listing, exported_files, typed, prompts, choice,
                   selected_file, songs, found_songs, start_from, start_idx,
                   songs_to_process, confirm, navigated, pos, progress,
                   results, last_page, successful, failed, failed_songs,
                   failed_file>>

\* driver.get(APPLE_MUSIC_URL); on an exception the finally block quits
Main_OpenLanding ==
    /\ pc = "landing"
    /\ navigated' = Append(navigated, APPLE_MUSIC_URL)
    /\ \E ok \in BOOLEAN :
        IF ok THEN pc' = "login" /\ outcome' = outcome /\ browsers' = browsers
        ELSE browsers' = quit(browsers, driver) /\ Exit("error")
    /\ UNCHANGED <<dir_exists, listing, exported_files, typed, prompts, choice,
                   selected_file, songs, found_songs, start_from, start_idx,
                   songs_to_process, confirm, attempts, driver, pos, progress,
                   results, last_page, successful, failed, failed_songs,
                   failed_file>>

\* input("Press Enter when you're logged in and ready..."); the counters
Main_Login ==
    /\ pc = "login"
    /\ \E line \in EnterInputs : Ask("login", line)
    /\ successful' = 0 /\ failed' = 0 /\ failed_songs' = <<>>
    /\ pc' = "loop"
    /\ UNCHANGED <<outcome, dir_exists, listing, exported_files, choice,
                   selected_file, songs, found_songs, start_from, start_idx,
                   songs_to_process, confirm, attempts, browsers, driver,
                   navigated, pos, progress, results, last_page, failed_file>>

\* one iteration of the for loop
Main_ProcessSong ==
    /\ pc = "loop"
    /\ pos < Len(songs_to_process)
    /\ LET song == songs_to_process[pos + 1]
           i == start_idx + 1 + pos
       IN  IF {"spotify_name", "spotify_artist"} \subseteq DOMAIN song
           THEN \E page \in Pages :
                  LET result == add_song_to_library(page)
                      t == tally(result, successful, failed, failed_songs, song)
                  IN  /\ progress' = Append(progress, i)
                      /\ navigated' = Append(navigated, song.apple_url)
                      /\ last_page' = page
                      /\ results' = Append(results, result)
                      /\ successful' = t.successful
                      /\ failed' = t.failed
                      /\ failed_songs' = t.failed_songs
                      /\ pos' = pos + 1
                      /\ UNCHANGED <<pc, outcome, browsers>>
           ELSE \* KeyError building the arguments: finally, then out of main()
                /\ browsers' = quit(browsers, driver)
                /\ Exit("error")
                /\ UNCHANGED <<progress, navigated, last_page, results,
                               successful, failed, failed_songs, pos>>
    /\ UNCHANGED <<dir_exists, listing, exported_files, typed, prompts, choice,
                   selected_file, songs, found_songs, start_from, start_idx,
                   songs_to_process, confirm, attempts, driver, failed_file>>

\* after the loop: the summary and, if failed_songs, the failure file
Main_Report ==
    /\ pc = "loop"
    /\ pos = Len(songs_to_process)
    /\ IF failed_songs # <<>>
       THEN \E written \in BOOLEAN :
              IF written
              THEN /\ failed_file' = failed_file_lines(failed_songs)
                   /\ pc' = "close"
                   /\ UNCHANGED <<outcome, browsers>>
              ELSE \* open() raised: finally, then out of main()
                   /\ browsers' = quit(browsers, driver)
                   /\ Exit("error")
                   /\ failed_file' = failed_file
       ELSE pc' = "close" /\ UNCHANGED <<outcome, browsers, failed_file>>
    /\ UNCHANGED <<dir_exists, listing, exported_files, typed, prompts, choice,
                   selected_file, songs, found_songs, start_from, start_idx,
                   songs_to_process, confirm, attempts, driver, navigated, pos,
                   progress, results, last_page, successful, failed,
                   failed_songs>>

\* input("Press Enter to close the browser..."); finally: driver.quit()
Main_Close ==
    /\ pc = "close"
    /\ \E line \in EnterInputs : Ask("close", line)
    /\ browsers' = quit(browsers, driver)
    /\ Exit("done")
    /\ UNCHANGED <<dir_exists, listing, exported_files, choice, selected_file,
                   songs, found_songs, start_from, start_idx, songs_to_process,
                   confirm, attempts, driver, navigated, pos, progress,
                   results, last_page, successful, failed, failed_songs,
                   failed_file>>

(***************************************************************************)
(* Specifications                                                          *)
(***************************************************************************)
InitLocals ==
    /\ pc = "start" /\ outcome = ""
    /\ exported_files = <<>>
    /\ typed = "" /\ prompts = <<>>
    /\ choice = "" /\ selected_file = ""
    /\ songs = <<>> /\ found_songs = <<>>
    /\ start_from = "" /\ start_idx = 0 /\ songs_to_process = <<>>
    /\ confirm = ""
    /\ attempts = <<>> /\ browsers = <<>> /\ driver = 0
    /\ navigated = <<>> /\ pos = 0 /\ progress = <<>> /\ results = <<>>
    /\ last_page = NoPage
    /\ successful = 0 /\ failed = 0 /\ failed_songs = <<>>
    /\ failed_file = <<>>

\* a run of main() over a small export directory
Init ==
    /\ dir_exists \in BOOLEAN
    /\ listing \in (IF dir_exists THEN RunListings ELSE {<<>>})
    /\ InitLocals

Next ==
    \/ Main_ListFiles
    \/ Main_SelectFile
    \/ Main_LoadFails
    \/ Main_LoadSongs
    \/ Main_AskStart
    \/ Main_Confirm
    \/ Main_SetupBrowser
    \/ Main_OpenLanding
    \/ Main_Login
    \/ Main_ProcessSong
    \/ Main_Report
    \/ Main_Close

Spec == Init /\ [][Next]_vars

\* get_exported_files alone, over every listing of at most MaxFiles names
InitLister ==
    /\ dir_exists \in BOOLEAN
    /\ listing \in (IF dir_exists THEN Listings ELSE {<<>>})
    /\ InitLocals

NextLister == Main_ListFiles

SpecLister == InitLister /\ [][NextLister]_vars

(***************************************************************************)
(* Vocabulary of the properties                                            *)
(***************************************************************************)
Asked(prompt) == \E i \in 1..Len(prompts) : prompts[i] = prompt

LastAsked(prompt) == prompts # <<>> /\ prompts[Len(prompts)] = prompt

TimesAsked(prompt) == Cardinality({i \in 1..Len(prompts) : prompts[i] = prompt})

NoBrowserLaunched == attempts = <<>> /\ browsers = <<>>

NoBrowserAction ==
    /\ NoBrowserLaunched
    /\ navigated = <<>> /\ progress = <<>> /\ results = <<>>
    /\ failed_file = <<>>

\* the export file has been read and filtered
Loaded ==
    \/ pc \in {"ask_start", "confirm", "setup", "landing", "login", "loop", "close"}
    \/ pc = "exit" /\ outcome \in {"no_songs", "cancelled", "setup_failed", "done"}
    \/ pc = "exit" /\ outcome = "error" /\ attempts # <<>>

\* the for loop ran to its end
LoopEnded == pc = "close" \/ (pc = "exit" /\ outcome = "done")

\* the track has found = true and a non-empty apple_url
Eligible(s) ==
    /\ "found" \in DOMAIN s /\ s.found
    /\ "apple_url" \in DOMAIN s /\ Len(s.apple_url) > 0

\* the URLs of the track pages visited (after the landing page)
TrackUrls == IF navigated = <<>> THEN <<>> ELSE Tail(navigated)

\* "<spotify_name> - <spotify_artist>" of the tracks whose call returned False
RECURSIVE FailedLabels(_)
FailedLabels(k) ==
    IF k = 0 THEN <<>>
    ELSE IF results[k] THEN FailedLabels(k - 1)
    ELSE Append(FailedLabels(k - 1),
                songs_to_process[k].spotify_name \o " - "
                    \o songs_to_process[k].spotify_artist)

\* the line is no index of a list of n entries
BadIndex(line, n) == ~int_ok(line) \/ int(line) < 1 \/ int(line) > n

(***************************************************************************)
(* Properties                                                              *)
(***************************************************************************)
\* C1: no failure while handling one track aborts the run: once the loop has
\* been entered, a run that has ended has attempted every track of
\* songs_to_process, once each and in list order.
C1_EveryTrackAttempted ==
    (pc = "exit" /\ Asked("login")) =>
        /\ Len(TrackUrls) = Len(songs_to_process)
        /\ \A k \in 1..Len(TrackUrls) : TrackUrls[k] = songs_to_process[k].apple_url

\* C2: when the run has ended, every browser that was started has been quit.
C2_EveryBrowserClosed ==
    pc = "exit" => \A b \in 1..Len(browsers) : browsers[b] = "closed"

\* C3: only tracks with found = true and a non-empty apple_url are processed:
\* found_songs and songs_to_process hold such tracks only, no other track of
\* the export is navigated to, counted or written to the failure file, and an
\* export without such a track ends the run before the start prompt and
\* before any browser launch.
C3_OnlyFoundTracks ==
    /\ \A i \in 1..Len(found_songs) : Eligible(found_songs[i])
    /\ \A i \in 1..Len(songs_to_process) : Eligible(songs_to_process[i])
    /\ \A i \in 1..Len(songs) :
         ~Eligible(songs[i]) =>
            /\ "apple_url" \in DOMAIN songs[i] =>
                  \A k \in 1..Len(navigated) : navigated[k] # songs[i].apple_url
            /\ "spotify_name" \in DOMAIN songs[i] =>
                  LET line == songs[i].spotify_name \o " - " \o songs[i].spotify_artist
                  IN  /\ \A k \in 1..Len(failed_songs) : failed_songs[k] # line
                      /\ \A k \in 1..Len(failed_file) : failed_file[k] # line
    /\ successful + failed
         <= Cardinality({i \in 1..Len(songs) : Eligible(songs[i])})
    /\ (Loaded /\ \A i \in 1..Len(songs) : ~Eligible(songs[i])) =>
         /\ pc = "exit" /\ outcome = "no_songs"
         /\ ~Asked("start")
         /\ NoBrowserAction

C3_Witness ==
    /\ pc = "exit" /\ outcome = "done"
    /\ \E i \in 1..Len(songs) : ~Eligible(songs[i])
    /\ successful + failed >= 1

\* C4: with count = len(found_songs) and a number n typed at the start
\* prompt: n outside [1, count] makes the run process all count tracks from
\* the first; 1 <= n <= count makes it process exactly tracks n..count, in
\* order, the first of them shown with progress index n.
C4_StartOffset ==
    (Asked("start") /\ int_ok(start_from)) =>
        LET count == Len(found_songs)
            n == int(start_from)
            first == IF n < 1 \/ n > count THEN 1 ELSE n
        IN  /\ songs_to_process = SubSeq(found_songs, first, count)
            /\ Len(progress) = Len(TrackUrls)
            /\ \A k \in 1..Len(progress) :
                  /\ progress[k] = first + k - 1
                  /\ TrackUrls[k] = found_songs[first + k - 1].apple_url
            /\ LoopEnded => Len(progress) = count - first + 1

C4_Witness ==
    /\ pc = "exit" /\ outcome = "done"
    /\ start_from = "2" /\ Len(found_songs) = 2
    /\ progress = <<2>>

\* C5, as claimed: after a line other than "yes" at the confirmation prompt
\* no browser is launched, no page navigated, no track attempted and no
\* failure file written.
C5_AnyOtherLineCancels ==
    (LastAsked("confirm") /\ typed # "yes") => NoBrowserAction

\* C5, amended: a line that is not "yes" once stripped and lower-cased ends
\* the run at once, without an error: no browser is launched, no page is
\* navigated, no track is attempted and no failure file is written.
C5_CancelAtConfirm ==
    (LastAsked("confirm") /\ lower(strip(typed)) # "yes") =>
        /\ pc = "exit" /\ outcome = "cancelled"
        /\ NoBrowserAction

C5_Witness ==
    /\ LastAsked("confirm") /\ typed = "no"
    /\ pc = "exit" /\ outcome = "cancelled"

\* C6, as claimed: an invalid index at the file prompt or at the start prompt
\* ends that step for good: no later prompt, no browser.
C6_InvalidIndexIsFatal ==
    /\ (Asked("file") /\ BadIndex(choice, Len(exported_files))) =>
          /\ pc = "exit" /\ outcome = "invalid_choice"
          /\ prompts = <<"file">> /\ NoBrowserAction
    /\ (Asked("start") /\ start_from # "" /\ BadIndex(start_from, Len(found_songs))) =>
          /\ ~Asked("confirm") /\ NoBrowserAction

\* C6, amended: an invalid index at the file prompt ends the run (no later
\* prompt, no browser); an invalid index at the start prompt does not: the
\* run goes on to the confirmation prompt with start_idx = 0 and every found
\* track to process.  Neither prompt is asked twice.
C6_InvalidIndex ==
    /\ (Asked("file") /\ BadIndex(choice, Len(exported_files))) =>
          /\ pc = "exit" /\ outcome = "invalid_choice"
          /\ prompts = <<"file">> /\ NoBrowserAction
    /\ (Asked("start") /\ start_from # "" /\ BadIndex(start_from, Len(found_songs))) =>
          /\ start_idx = 0 /\ songs_to_process = found_songs
          /\ pc = "confirm" \/ Asked("confirm")
    /\ TimesAsked("file") <= 1 /\ TimesAsked("start") <= 1

C6_Witness ==
    /\ start_from = "x" /\ Asked("start")
    /\ pc = "exit" /\ outcome = "done"
    /\ Len(results) = Len(found_songs)

\* the page of the last call and the value the call returned
LastResult == results[Len(results)]

Clicked(p) == add_button(p) /\ p.scroll_ok /\ (p.click_ok \/ p.js_click_ok)

\* the failure file against the results of the calls
FailureFileMatches ==
    /\ failed_songs = FailedLabels(Len(results))
    /\ failed_file # <<>> =>
          /\ LoopEnded
          /\ SubSeq(failed_file, 3, Len(failed_file)) = FailedLabels(Len(results))
    /\ LoopEnded => (failed_file # <<>> <=> \E k \in 1..Len(results) : ~results[k])

\* C7, as claimed: no visible add control and no "already in library"
\* indicator gives False and a line in the failure file; a control found and
\* clicked, or an indicator present, gives True and no line; the file is
\* written iff a processed track failed.
C7_FailureRecorded ==
    /\ results # <<>> =>
          /\ (~add_button(last_page) /\ ~last_page.in_library) => ~LastResult
          /\ (Clicked(last_page) \/ last_page.in_library) => LastResult
    /\ FailureFileMatches

\* C7, amended: the indicator gives True only when the page loaded and no
\* visible add control was found (with a control found, the click alone
\* decides).
C7_FailureRecordedNoControl ==
    /\ results # <<>> =>
          /\ (~add_button(last_page) /\ ~last_page.in_library) => ~LastResult
          /\ \/ Clicked(last_page)
             \/ last_page.nav_ok /\ ~add_button(last_page) /\ last_page.in_library
             => LastResult
    /\ FailureFileMatches

C7_Witness ==
    /\ pc = "exit" /\ outcome = "done"
    /\ results = <<TRUE, FALSE>>
    /\ last_page.nav_ok /\ ~add_button(last_page) /\ ~last_page.in_library
    /\ failed_file = <<"Songs that failed to add:",
                       "========================================", "s2 - Y">>

C9_Lister ==
    pc # "start" =>
        /\ ~dir_exists => exported_files = <<>>
        /\ dir_exists =>
              /\ {exported_files[i] : i \in 1..Len(exported_files)}
                    = {listing[j] : j \in {j \in 1..Len(listing) : endswith(listing[j], ".json")}}
              /\ \A i \in 1..(Len(exported_files) - 1) :
                    StrLess(exported_files[i + 1], exported_files[i])

C9_Witness ==
    /\ pc # "start" /\ dir_exists
    /\ Len(exported_files) >= 2
    /\ Len(listing) > Len(exported_files)
    /\ listing[1] = "a.json"

\* C10: after every iteration successful + failed is the number of tracks
\* attempted, len(failed_songs) = failed and failed_songs holds the labels of
\* the failed tracks in processing order; when the loop ends successful +
\* failed = len(songs_to_process); neither counter ever decreases.
C10_Counters ==
    /\ successful + failed = Len(results)
    /\ Len(results) = pos
    /\ Len(failed_songs) = failed
    /\ failed_songs = FailedLabels(Len(results))
    /\ LoopEnded => successful + failed = Len(songs_to_process)

C10_RunState ==
    /\ []C10_Counters
    /\ [][successful' >= successful /\ failed' >= failed]_vars

C10_Witness ==
    /\ pc = "exit" /\ outcome = "done"
    /\ successful = 1 /\ failed = 1
    /\ Len(songs_to_process) = 2

====
